---- MODULE Spec2Model ----
(***************************************************************************)
(* A model of the NSP docking panel (src/src/main.rs): the window registry *)
(* kept by Panel::update_windows, the _NET_WM_ICON stream scan and the     *)
(* nearest-neighbour resampling of load_window_icon.                       *)
(*                                                                         *)
(* Every reply of the X server is an input of the step that waits for it   *)
(* (conn.wait_for_reply): it is drawn from a small set at that step.       *)
(* Option<T> is a sequence of length at most one: <<>> is None, <<v>> is   *)
(* Some(v).                                                                *)
(***************************************************************************)
EXTENDS Integers, Sequences, FiniteSets, TLC

VARIABLES
    pc,               \* position of main's loop: "sync", "scan", "wait"
    windows,          \* Panel.windows: handle -> WindowData
    order,            \* iteration order of the HashMap Panel.windows
    current_windows,  \* update_windows: the client list of the last successful fetch
    idx,              \* update_windows: position of the for loop in current_windows
    pixmaps,          \* server side: pixmaps created and not freed
    next_xid,         \* conn.generate_id: the next resource id
    sync_ok,          \* whether the last update_windows got a usable client list
    outcome,          \* per position of current_windows: did the eligibility check pass
    stable,           \* every reply of this update_windows so far equals the previous one's
    pre_keys,         \* keys of Panel.windows when this update_windows began
    calls,            \* get_window_title / load_window_icon calls of this update_windows
    last_insert,      \* replies under which the last step of the for loop inserted
    click,            \* main: the last ButtonPress on the panel and what it sent
    panel_window,     \* server side: the panel window exists
    raw_data,         \* load_window_icon: the icon stream being scanned
    scan,             \* load_window_icon: offset, best_size, best_icon of the while loop
    scan_pc,          \* load_window_icon: "idle", "loop", "done"
    triples,          \* the (w, h) images the stream was written from
    tail,             \* what follows the images in the stream
    src_icon,         \* resampling: the selected image (width, height, pixel pattern)
    pixels,           \* resampling: the Vec<u8> handed to PutImage
    fallback,         \* resampling: whether the idx >= icon_data.len() branch was taken
    rs_pc,            \* resampling: "idle", "src", "done"
    entries,          \* update_layout: the number of entries of Panel.windows
    laid,             \* update_layout: the entries the for loop has been through
    y_pos,            \* update_layout: the i16 y_pos
    rect_y,           \* update_layout: y of the rectangle assigned last
    layout_pc,        \* update_layout: "idle", "loop", "done", "abort"
    run_a,            \* a panel process: its Panel.windows and iteration order
    run_b,            \* another panel process given the same replies
    discovery         \* the tracked handles in the order they were inserted

panel_vars == <<pc, windows, order, current_windows, idx, pixmaps, next_xid, sync_ok,
                outcome, stable, pre_keys, calls, last_insert, click, panel_window>>
icon_vars == <<raw_data, scan, scan_pc, triples, tail>>
resample_vars == <<src_icon, pixels, fallback, rs_pc>>
layout_vars == <<entries, laid, y_pos, rect_y, layout_pc>>
pair_vars == <<run_a, run_b, discovery>>
vars == <<panel_vars, icon_vars, resample_vars, layout_vars, pair_vars>>

----------------------------------------------------------------------------
(* Program constants.                                                      *)

ICON_SIZE == 30
PANEL_WIDTH == 32
ITEM_SPACING == 4
MAX_ICON_DIM == 256

(* Bounds of the model.                                                    *)

MaxPixmaps == 2     \* pixmaps the connection may create
MaxTriples == 2     \* images in an icon stream

Handles == {10, 20}

None == <<>>
Some(v) == <<v>>
IsSome(o) == Len(o) = 1
Unwrap(o) == o[1]

Range(s) == {s[k] : k \in 1..Len(s)}

SeqsUpTo(S, n) == UNION {[1..k -> S] : k \in 0..n}

\* the client lists the server returns: every list over Handles, repetitions
\* included, no longer than the number of handles
ClientLists == SeqsUpTo(Handles, Cardinality(Handles))

Min(a, b) == IF a < b THEN a ELSE b

----------------------------------------------------------------------------
(* load_window_icon: the scan of the icon stream (the while loop).  A      *)
(* state of the loop is [offset, best_size, best_icon]; best_icon is an    *)
(* Option of [width, height, lo, hi], the slice &raw_data[lo..hi] of the   *)
(* source (0-based, hi excluded).  raw[k + 1] is raw_data[k].               *)

ScanInit == [offset |-> 0, best_size |-> 0, best_icon |-> None]

ScanWidth(raw, st) == raw[st.offset + 1]
ScanHeight(raw, st) == raw[st.offset + 2]
ScanIconSize(raw, st) == ScanWidth(raw, st) * ScanHeight(raw, st)
ScanRequired(raw, st) == st.offset + 2 + ScanIconSize(raw, st)

\* while offset + 1 < raw_data.len()
ScanCond(raw, st) == st.offset + 1 < Len(raw)

\* variant: the break comes one word late
ScanBreaksLate(raw, st) == ScanRequired(raw, st) > Len(raw) + 1

\* if required_length > raw_data.len() { break; }
ScanBreaks(raw, st) == ScanRequired(raw, st) > Len(raw)

\* variant: >= in place of >, the last of equal areas wins
ScanBetterOrEqual(raw, st) ==
    /\ ScanIconSize(raw, st) >= st.best_size
    /\ ScanWidth(raw, st) <= MAX_ICON_DIM
    /\ ScanHeight(raw, st) <= MAX_ICON_DIM

\* if icon_size > best_size && width <= 256 && height <= 256
ScanBetter(raw, st) ==
    /\ ScanIconSize(raw, st) > st.best_size
    /\ ScanWidth(raw, st) <= MAX_ICON_DIM
    /\ ScanHeight(raw, st) <= MAX_ICON_DIM

\* one iteration of the loop that does not break
ScanBody(raw, st) ==
    [offset |-> ScanRequired(raw, st),
     best_size |-> IF ScanBetter(raw, st) THEN ScanIconSize(raw, st) ELSE st.best_size,
     best_icon |-> IF ScanBetter(raw, st)
                   THEN Some([width |-> ScanWidth(raw, st),
                              height |-> ScanHeight(raw, st),
                              lo |-> st.offset + 2,
                              hi |-> ScanRequired(raw, st)])
                   ELSE st.best_icon]

\* the loop goes through its body to the end: the condition holds and no break
ScanContinues(raw, st) == IF ScanCond(raw, st) THEN ~ScanBreaks(raw, st) ELSE FALSE

RECURSIVE ScanLoop(_, _)
ScanLoop(raw, st) ==
    IF ScanContinues(raw, st)
    THEN ScanLoop(raw, ScanBody(raw, st))
    ELSE st

\* if raw_data.len() < 2 { return None; } ... match best_icon
BestIcon(raw) == IF Len(raw) < 2 THEN None ELSE ScanLoop(raw, ScanInit).best_icon

\* the two GetProperty requests: the probe (long_length 0) answers bytes_after, the
\* fetch asks for (bytes_needed + 3) / 4 words of the property as it is by then
FetchedWords(probe, fetch) ==
    SubSeq(fetch.prop, 1, Min((probe.bytes_after + 3) \div 4, Len(fetch.prop)))

\* bytes_after of the second reply: what the property holds beyond the words asked
FetchBytesAfter(probe, fetch) ==
    4 * (Len(fetch.prop) - Len(FetchedWords(probe, fetch)))

DecodeIcon(probe, fetch) ==
    IF ~probe.ok THEN None
    ELSE IF ~fetch.ok THEN None
    ELSE BestIcon(FetchedWords(probe, fetch))

\* load_window_icon: Some(pixmap) with a new id when an image was selected
LoadWindowIcon(probe, fetch, xid) ==
    IF IsSome(DecodeIcon(probe, fetch)) THEN Some(xid) ELSE None

----------------------------------------------------------------------------
(* get_window_title, is_normal_window, is_special_window                   *)

DefaultTitle == "Unnamed Window"

GetWindowTitle(net, wm) ==
    IF net.ok /\ net.type = "UTF8_STRING" /\ net.utf8
    THEN net.text
    ELSE IF wm.ok THEN wm.text ELSE DefaultTitle

IsNormalWindow(reply) ==
    IF reply.ok
    THEN \E k \in 1..Len(reply.value) : reply.value[k] = "_NET_WM_WINDOW_TYPE_NORMAL"
    ELSE FALSE

\* variant: a failed attributes request counts as "not special"
IsSpecialWindowLax(reply) == IF reply.ok THEN reply.override_redirect ELSE FALSE

IsSpecialWindow(reply) == IF reply.ok THEN reply.override_redirect ELSE TRUE

\* the condition of the if in update_windows' for loop
Eligible(type_reply, attrs_reply) ==
    IsNormalWindow(type_reply) /\ ~IsSpecialWindow(attrs_reply)

----------------------------------------------------------------------------
(* The replies the server may give.                                        *)

ClientListReplies ==
    {[ok |-> FALSE, format |-> 0, value |-> <<>>]}
    \cup {[ok |-> TRUE, format |-> 0, value |-> <<>>]}
    \cup {[ok |-> TRUE, format |-> 32, value |-> l] : l \in ClientLists}

TypeReplies ==
    {[ok |-> FALSE, value |-> <<>>],
     [ok |-> TRUE, value |-> <<>>],
     [ok |-> TRUE, value |-> <<"_NET_WM_WINDOW_TYPE_DIALOG">>],
     [ok |-> TRUE, value |-> <<"_NET_WM_WINDOW_TYPE_DIALOG", "_NET_WM_WINDOW_TYPE_NORMAL">>]}

AttrsReplies ==
    {[ok |-> FALSE, override_redirect |-> FALSE],
     [ok |-> TRUE, override_redirect |-> TRUE],
     [ok |-> TRUE, override_redirect |-> FALSE]}

NetNameReplies ==
    {[ok |-> FALSE, type |-> "NONE", utf8 |-> TRUE, text |-> ""],
     [ok |-> TRUE, type |-> "NONE", utf8 |-> TRUE, text |-> ""],
     [ok |-> TRUE, type |-> "UTF8_STRING", utf8 |-> FALSE, text |-> ""],
     [ok |-> TRUE, type |-> "UTF8_STRING", utf8 |-> TRUE, text |-> "A"]}

WmNameReplies ==
    {[ok |-> FALSE, text |-> ""],
     [ok |-> TRUE, text |-> ""],
     [ok |-> TRUE, text |-> "B"]}

\* icon properties of the panel runs: none, one 1x1 image, a header without pixels,
\* two 1x1 images
PanelStreams == {<<>>, <<1, 1, 7>>, <<2, 2, 7>>, <<1, 1, 7, 1, 1, 8>>}

IconProbeReplies ==
    {[ok |-> FALSE, bytes_after |-> 0]}
    \cup {[ok |-> TRUE, bytes_after |-> 4 * Len(s)] : s \in PanelStreams}

IconFetchReplies ==
    {[ok |-> FALSE, prop |-> <<>>]}
    \cup {[ok |-> TRUE, prop |-> s] : s \in PanelStreams}

\* the second reply of load_window_icon arrived with bytes_after > 0
FetchTruncated(probe, fetch) ==
    IF probe.ok /\ fetch.ok THEN FetchBytesAfter(probe, fetch) > 0 ELSE FALSE

\* the replies to the four requests of an insertion (title, title, icon, icon)
InsertReplies ==
    NetNameReplies \X WmNameReplies \X IconProbeReplies \X IconFetchReplies

\* what an insertion makes of its replies
InsertEffect(r) ==
    <<GetWindowTitle(r[1], r[2]), IsSome(DecodeIcon(r[3], r[4])),
      FetchTruncated(r[3], r[4])>>

\* replies with the same effect lead to the same entry: one of each is drawn
InsertCases ==
    {CHOOSE r \in InsertReplies : InsertEffect(r) = e :
        e \in {InsertEffect(r) : r \in InsertReplies}}

----------------------------------------------------------------------------
(* Panel.windows is a HashMap: its iteration order is not specified.  The  *)
(* model keeps the order as a sequence of the keys; retain keeps the       *)
(* relative order of what stays, an insertion may put the key anywhere.    *)

RECURSIVE Retain(_, _)
Retain(ord, keep) ==
    IF ord = <<>> THEN <<>>
    ELSE IF Head(ord) \in keep
         THEN <<Head(ord)>> \o Retain(Tail(ord), keep)
         ELSE Retain(Tail(ord), keep)

InsertAt(ord, k, w) == SubSeq(ord, 1, k) \o <<w>> \o SubSeq(ord, k + 1, Len(ord))

ZeroRect == [x |-> 0, y |-> 0, width |-> 0, height |-> 0]

\* the closure of or_insert_with
NewWindowData(title, icon_pixmap) ==
    [title |-> title, icon_pixmap |-> icon_pixmap, icon_rect |-> ZeroRect]

\* variant: retain drops nothing
RetainKeysAll(ws, list) == DOMAIN ws

\* self.windows.retain(|k, _| current_windows.contains(k)): the keys that stay
RetainKeys(ws, list) == {k \in DOMAIN ws : k \in Range(list)}

RetainWindows(ws, list) == [h \in RetainKeys(ws, list) |-> ws[h]]

\* variant: the closure runs for a tracked window too (insert, not or_insert_with)
VacantAlways(ws, window) == TRUE

\* self.windows.entry(window) is vacant: or_insert_with runs its closure
Vacant(ws, window) == window \notin DOMAIN ws

\* variant: a window whose icon decode failed is skipped
InsertWindowIfIcon(ws, window, data) ==
    IF IsSome(data.icon_pixmap)
    THEN [h \in DOMAIN ws \cup {window} |-> IF h = window THEN data ELSE ws[h]]
    ELSE ws

\* self.windows.entry(window).or_insert_with(..), for a window that is no key
InsertWindow(ws, window, data) ==
    [h \in DOMAIN ws \cup {window} |-> IF h = window THEN data ELSE ws[h]]

\* update_layout.  y_pos is an i16: the addition of line 207 wraps in a build
\* without overflow checks and aborts the process in a build with them.
I16_MAX == 32767

I16Wrap(v) == ((v + 32768) % 65536) - 32768

XCenter == (PANEL_WIDTH - ICON_SIZE) \div 2

\* let mut y_pos = ITEM_SPACING
LayoutStart == ITEM_SPACING

\* variant: the slots follow each other without spacing
LayoutAdvanceTight(pos) == I16Wrap(pos + ICON_SIZE)

\* y_pos += ICON_SIZE as i16 + ITEM_SPACING, when it does not abort
LayoutAdvance(pos) == I16Wrap(pos + (ICON_SIZE + ITEM_SPACING))

\* the addition leaves the range of i16
LayoutOverflows(pos) == pos + (ICON_SIZE + ITEM_SPACING) > I16_MAX

\* variant: the rectangles sit on the left edge of the panel
LayoutRectLeft(pos) ==
    [x |-> 0, y |-> pos, width |-> ICON_SIZE, height |-> ICON_SIZE]

LayoutRect(pos) ==
    [x |-> XCenter, y |-> pos, width |-> ICON_SIZE, height |-> ICON_SIZE]

\* y_pos when the k-th entry of the iteration is assigned its rectangle
RECURSIVE LayoutY(_)
LayoutY(k) == IF k = 1 THEN LayoutStart ELSE LayoutAdvance(LayoutY(k - 1))

Position(ord, h) == CHOOSE k \in 1..Len(ord) : ord[k] = h

\* for data in self.windows.values_mut(): the k-th entry of the iteration gets the
\* k-th rectangle
UpdateLayout(ws, ord) ==
    [h \in DOMAIN ws |->
        [ws[h] EXCEPT !.icon_rect = LayoutRect(LayoutY(Position(ord, h)))]]

NoCalls == [title |-> {}, icon |-> {}]

----------------------------------------------------------------------------
(* The ButtonPress arm of main and can_accept_focus.                       *)

\* variant: the map state is not looked at
CanAcceptFocusMapped(reply) == IF reply.ok THEN ~reply.override_redirect ELSE FALSE

CanAcceptFocus(reply) ==
    IF reply.ok
    THEN ~reply.override_redirect /\ reply.map_state = "Viewable"
    ELSE FALSE

\* the attributes a window may have when it is clicked
FocusAttrsReplies ==
    {[ok |-> FALSE, override_redirect |-> FALSE, map_state |-> "Unmapped"],
     [ok |-> TRUE, override_redirect |-> TRUE, map_state |-> "Viewable"],
     [ok |-> TRUE, override_redirect |-> FALSE, map_state |-> "Unmapped"],
     [ok |-> TRUE, override_redirect |-> FALSE, map_state |-> "Viewable"]}

\* variant: the far edges are excluded
HitExclusive(x, y, rect) ==
    /\ x >= rect.x
    /\ x < I16Wrap(rect.x + rect.width)
    /\ y >= rect.y
    /\ y < I16Wrap(rect.y + rect.height)

\* the condition of the if in the for loop over &panel.windows
Hit(x, y, rect) ==
    /\ x >= rect.x
    /\ x <= I16Wrap(rect.x + rect.width)
    /\ y >= rect.y
    /\ y <= I16Wrap(rect.y + rect.height)

\* the entries the for loop finds the point in, in the order of the iteration
HitOrder(ws, ord, x, y) == SelectSeq(ord, LAMBDA h : Hit(x, y, ws[h].icon_rect))

\* what the for loop sends: SetInputFocus and ConfigureWindow (StackMode Above) for
\* every hit entry that can take the focus
RECURSIVE ClickRequests(_, _)
ClickRequests(hits, replies) ==
    IF hits = <<>> THEN <<>>
    ELSE (IF CanAcceptFocus(replies[Head(hits)])
          THEN <<[request |-> "SetInputFocus", window |-> Head(hits)],
                 [request |-> "ConfigureWindow", window |-> Head(hits)]>>
          ELSE <<>>)
         \o ClickRequests(Tail(hits), replies)

\* the points clicked: around the corners of the first rectangle, and the top left
\* corner of the second
ClickPoints ==
    {<<XCenter - 1, ITEM_SPACING - 1>>,
     <<XCenter, ITEM_SPACING>>,
     <<XCenter + ICON_SIZE, ITEM_SPACING + ICON_SIZE>>,
     <<XCenter + ICON_SIZE + 1, ITEM_SPACING + ICON_SIZE>>,
     <<XCenter + ICON_SIZE, ITEM_SPACING + ICON_SIZE + 1>>,
     <<XCenter + ICON_SIZE + 1, ITEM_SPACING + ICON_SIZE + 1>>,
     <<XCenter, ITEM_SPACING + ICON_SIZE + ITEM_SPACING>>}

----------------------------------------------------------------------------
(* main's loop: update_windows (SyncBegin, SyncWindow per element of the   *)
(* client list, SyncEnd), then the wait for the next event.                *)

\* variant: a failed client-list request empties the registry
SyncFailClears(reply) ==
    /\ ~reply.ok \/ reply.format # 32
    /\ pc' = "wait"
    /\ sync_ok' = FALSE
    /\ stable' = FALSE
    /\ windows' = RetainWindows(windows, <<>>)
    /\ order' = <<>>
    /\ UNCHANGED <<current_windows, idx, pixmaps, next_xid, outcome,
                   pre_keys, calls, last_insert>>

\* the client-list request failed or is not of format 32: update_windows returns
SyncFail(reply) ==
    /\ ~reply.ok \/ reply.format # 32
    /\ pc' = "wait"
    /\ sync_ok' = FALSE
    /\ stable' = FALSE
    /\ UNCHANGED <<windows, order, current_windows, idx, pixmaps, next_xid, outcome,
                   pre_keys, calls, last_insert>>

\* the client list arrived: retain, then the for loop starts
SyncFetch(reply) ==
    /\ reply.ok /\ reply.format = 32
    /\ current_windows' = reply.value
    /\ windows' = RetainWindows(windows, reply.value)
    /\ order' = Retain(order, RetainKeys(windows, reply.value))
    /\ idx' = 1
    /\ pc' = "scan"
    /\ pre_keys' = DOMAIN windows
    /\ stable' = (sync_ok /\ reply.value = current_windows)
    /\ outcome' = IF reply.value = current_windows
                  THEN outcome
                  ELSE [k \in 1..Len(reply.value) |-> FALSE]
    /\ calls' = NoCalls
    /\ last_insert' = None
    /\ UNCHANGED <<pixmaps, next_xid, sync_ok>>

SyncBegin ==
    /\ pc = "sync"
    /\ \E reply \in ClientListReplies : SyncFail(reply) \/ SyncFetch(reply)
    /\ click' = None
    /\ UNCHANGED panel_window
    /\ UNCHANGED <<icon_vars, resample_vars, layout_vars, pair_vars>>

\* the eligibility check failed, or the window is tracked already
SyncKeep ==
    /\ last_insert' = None
    /\ UNCHANGED <<windows, order, pixmaps, next_xid, calls>>

\* the closure of or_insert_with runs: title, icon, a new entry
SyncInsert(window, net, wm, probe, fetch) ==
    LET title == GetWindowTitle(net, wm)
        icon_pixmap == LoadWindowIcon(probe, fetch, next_xid)
    IN  /\ IsSome(icon_pixmap) => next_xid <= MaxPixmaps
        /\ windows' = InsertWindow(windows, window, NewWindowData(title, icon_pixmap))
        /\ \E k \in 0..Len(order) : order' = InsertAt(order, k, window)
        /\ pixmaps' = IF IsSome(icon_pixmap) THEN pixmaps \cup {next_xid} ELSE pixmaps
        /\ next_xid' = IF IsSome(icon_pixmap) THEN next_xid + 1 ELSE next_xid
        /\ calls' = [title |-> calls.title \cup {<<window, title>>},
                     icon |-> calls.icon \cup {<<window, icon_pixmap>>}]

SyncWindow ==
    /\ pc = "scan"
    /\ idx <= Len(current_windows)
    /\ LET window == current_windows[idx]
       IN  \E type_reply \in TypeReplies, attrs_reply \in AttrsReplies,
              skip_taskbar \in BOOLEAN :
             /\ outcome' = [outcome EXCEPT ![idx] = Eligible(type_reply, attrs_reply)]
             /\ stable' = (stable /\ outcome[idx] = Eligible(type_reply, attrs_reply))
             /\ IF Eligible(type_reply, attrs_reply) /\ Vacant(windows, window)
                THEN \E r \in InsertCases :
                       /\ last_insert' =
                              Some([window |-> window,
                                    type_reply |-> type_reply,
                                    attrs_reply |-> attrs_reply,
                                    skip_taskbar |-> skip_taskbar,
                                    fetch_truncated |-> FetchTruncated(r[3], r[4])])
                       /\ SyncInsert(window, r[1], r[2], r[3], r[4])
                ELSE SyncKeep
    /\ idx' = idx + 1
    /\ UNCHANGED <<pc, current_windows, sync_ok, pre_keys, click, panel_window>>
    /\ UNCHANGED <<icon_vars, resample_vars, layout_vars, pair_vars>>

\* the for loop is over: update_layout, and update_windows returns
SyncEnd ==
    /\ pc = "scan"
    /\ idx > Len(current_windows)
    /\ windows' = UpdateLayout(windows, order)
    /\ pc' = "wait"
    /\ sync_ok' = TRUE
    /\ last_insert' = None
    /\ UNCHANGED <<order, current_windows, idx, pixmaps, next_xid, outcome, stable,
                   pre_keys, calls, click, panel_window>>
    /\ UNCHANGED <<icon_vars, resample_vars, layout_vars, pair_vars>>

\* wait_for_event returned an error, or an event that is neither a ButtonPress on
\* the panel nor the WM_DELETE_WINDOW message: the loop goes round
NextEvent ==
    /\ pc = "wait"
    /\ pc' = "sync"
    /\ UNCHANGED <<windows, order, current_windows, idx, pixmaps, next_xid, sync_ok,
                   outcome, stable, pre_keys, calls, last_insert, click, panel_window>>
    /\ UNCHANGED <<icon_vars, resample_vars, layout_vars, pair_vars>>

\* a ButtonPress on the panel at (x, y): every entry whose rectangle holds the point
\* is asked whether it can take the focus, in the order of the iteration
ButtonPress ==
    /\ pc = "wait"
    /\ \E point \in ClickPoints :
         LET hits == HitOrder(windows, order, point[1], point[2])
         IN  \E replies \in [Range(hits) -> FocusAttrsReplies] :
                click' = Some([x |-> point[1], y |-> point[2], hits |-> hits,
                               replies |-> replies,
                               requests |-> ClickRequests(hits, replies)])
    /\ pc' = "sync"
    /\ UNCHANGED <<windows, order, current_windows, idx, pixmaps, next_xid, sync_ok,
                   outcome, stable, pre_keys, calls, last_insert, panel_window>>
    /\ UNCHANGED <<icon_vars, resample_vars, layout_vars, pair_vars>>

\* the ClientMessage with data[0] = WM_DELETE_WINDOW: break, DestroyWindow, flush,
\* and main returns
Terminate ==
    /\ pc = "wait"
    /\ pc' = "exit"
    /\ panel_window' = FALSE
    /\ UNCHANGED <<windows, order, current_windows, idx, pixmaps, next_xid, sync_ok,
                   outcome, stable, pre_keys, calls, last_insert, click>>
    /\ UNCHANGED <<icon_vars, resample_vars, layout_vars, pair_vars>>

IconIdle ==
    /\ raw_data = <<>>
    /\ scan = ScanInit
    /\ scan_pc = "idle"
    /\ triples = <<>>
    /\ tail = <<>>

ResampleIdle ==
    /\ src_icon = None
    /\ pixels = <<>>
    /\ fallback = FALSE
    /\ rs_pc = "idle"

\* Panel::new: the registry is empty
PanelInit ==
    /\ pc = "sync"
    /\ windows = [h \in {} |-> NewWindowData("", None)]
    /\ order = <<>>
    /\ current_windows = <<>>
    /\ idx = 1
    /\ pixmaps = {}
    /\ next_xid = 1
    /\ sync_ok = FALSE
    /\ outcome = <<>>
    /\ stable = FALSE
    /\ pre_keys = {}
    /\ calls = NoCalls
    /\ last_insert = None
    /\ click = None
    /\ panel_window = TRUE

LayoutIdle ==
    /\ entries = 0
    /\ laid = 0
    /\ y_pos = LayoutStart
    /\ rect_y = None
    /\ layout_pc = "idle"

\* a panel process after Panel::new
NewRun == [windows |-> [h \in {} |-> NewWindowData("", None)], order |-> <<>>]

PairIdle ==
    /\ run_a = NewRun
    /\ run_b = NewRun
    /\ discovery = <<>>

Init == PanelInit /\ IconIdle /\ ResampleIdle /\ LayoutIdle /\ PairIdle

Next == SyncBegin \/ SyncWindow \/ SyncEnd \/ NextEvent \/ ButtonPress \/ Terminate

Spec == Init /\ [][Next]_vars

----------------------------------------------------------------------------
(* The scan of load_window_icon on its own, one loop iteration per step.   *)
(* The stream is written from a list of images (triples) followed by a     *)
(* tail; the pixel words of the k-th image all hold k.                     *)

DimPairs ==
    {[w |-> 0, h |-> 2], [w |-> 1, h |-> 1], [w |-> 2, h |-> 1], [w |-> 1, h |-> 2],
     [w |-> 256, h |-> 1], [w |-> 257, h |-> 1], [w |-> 1, h |-> 257]}

\* nothing; one stray word; headers that claim more pixel words than follow
Tails == {<<>>, <<9>>, <<3, 3>>, <<2, 2, 1, 1, 5>>, <<256, 256, 5>>}

Area(t) == t.w * t.h

RECURSIVE Stream(_, _)
Stream(ts, k) ==
    IF k > Len(ts) THEN <<>>
    ELSE <<ts[k].w, ts[k].h>> \o [j \in 1..Area(ts[k]) |-> k] \o Stream(ts, k + 1)

ScanStart ==
    /\ scan_pc = "start"
    /\ scan_pc' = IF Len(raw_data) < 2 THEN "done" ELSE "loop"
    /\ UNCHANGED <<raw_data, scan, triples, tail>>
    /\ UNCHANGED <<panel_vars, resample_vars, layout_vars, pair_vars>>

ScanStep ==
    /\ scan_pc = "loop"
    /\ ScanContinues(raw_data, scan)
    /\ scan' = ScanBody(raw_data, scan)
    /\ UNCHANGED <<raw_data, scan_pc, triples, tail>>
    /\ UNCHANGED <<panel_vars, resample_vars, layout_vars, pair_vars>>

ScanStop ==
    /\ scan_pc = "loop"
    /\ ~ScanContinues(raw_data, scan)
    /\ scan_pc' = "done"
    /\ UNCHANGED <<raw_data, scan, triples, tail>>
    /\ UNCHANGED <<panel_vars, resample_vars, layout_vars, pair_vars>>

IconInit ==
    /\ triples \in SeqsUpTo(DimPairs, MaxTriples)
    /\ tail \in Tails
    /\ raw_data = Stream(triples, 1) \o tail
    /\ scan = ScanInit
    /\ scan_pc = "start"

InitIcon == PanelInit /\ IconInit /\ ResampleIdle /\ LayoutIdle /\ PairIdle

NextIcon == ScanStart \/ ScanStep \/ ScanStop

SpecIcon == InitIcon /\ [][NextIcon]_vars

----------------------------------------------------------------------------
(* load_window_icon: the resampling of the selected image to ICON_SIZE x   *)
(* ICON_SIZE.  The source coordinates are computed in f32: the product     *)
(* x * width is exact (below 2^24), the quotient by ICON_SIZE is rounded   *)
(* to the nearest f32 (24 bits of mantissa, ties to even), and `as usize`  *)
(* truncates.  F32Exp(n, d, 30) is the s with 2^23 <= n * 2^s / d < 2^24.  *)

RECURSIVE F32Exp(_, _, _)
F32Exp(n, d, s) ==
    IF n <= (d * 16777216 - 1) \div 2^s THEN s ELSE F32Exp(n, d, s - 1)

\* (n as f32 / d as f32) as usize, for 0 <= n < 2^24 and 0 < d < 2^6
F32DivTrunc(n, d) ==
    IF n = 0 THEN 0
    ELSE LET s == F32Exp(n, d, 30)
             q == (n * 2^s) \div d
             r == (n * 2^s) % d
             m == IF 2 * r > d \/ (2 * r = d /\ q % 2 = 1) THEN q + 1 ELSE q
         IN  m \div 2^s

\* variant: the quotient is rounded to the nearest integer, not truncated
SrcCoordRounded(x, width) == (2 * x * width + ICON_SIZE) \div (2 * ICON_SIZE)

\* let src_x = (x as f32 * width as f32 / ICON_SIZE as f32) as usize
SrcCoord(x, width) == F32DivTrunc(x * width, ICON_SIZE)

\* icon_data[i]: the image is described by its pattern, a single colour or,
\* for "index", the pixel word i at index i
IconData(icon, i) == IF icon.pattern = "index" THEN i ELSE icon.colour

\* the four bytes pushed for one pixel word
Channels(pixel) == <<pixel % 256, (pixel \div 256) % 256, (pixel \div 65536) % 256, 255>>

\* let idx = src_y * width + src_x, for x in x0..ICON_SIZE, as a sequence
RECURSIVE RowIndices(_, _, _)
RowIndices(icon, src_y, x0) ==
    IF x0 >= ICON_SIZE THEN <<>>
    ELSE <<src_y * icon.width + SrcCoord(x0, icon.width)>> \o RowIndices(icon, src_y, x0 + 1)

SrcIndices(icon, y) == RowIndices(icon, SrcCoord(y, icon.height), 0)

\* let pixel = if idx < icon_data.len() { icon_data[idx] } else { 0 }
SrcPixel(icon, i) == IF i < icon.len THEN IconData(icon, i) ELSE 0

\* the bytes one row adds to the Vec<u8>, from the source indices of the row
RowBytes(icon, indices) ==
    [k \in 1..(4 * ICON_SIZE) |->
        Channels(SrcPixel(icon, indices[((k - 1) \div 4) + 1]))[((k - 1) % 4) + 1]]

\* whether the else branch (pixel = 0) is taken in a row
FallbackTaken(icon, indices) == \E k \in 1..Len(indices) : indices[k] >= icon.len

\* the row the outer loop is at: four bytes per pixel, ICON_SIZE pixels per row
RowsDone(px) == Len(px) \div (4 * ICON_SIZE)

\* the sources resampled: every width and every height the scan can select, on
\* images of one row or one column, and a grid of sizes in both patterns
SrcDims == {1, 2, 16, 29, 30, 31, 255, 256}

SrcColours == {2134075033}

SrcIcon(w, h, pattern, colour) ==
    [width |-> w, height |-> h, len |-> w * h, pattern |-> pattern, colour |-> colour]

SrcIcons ==
    {SrcIcon(w, 1, "index", 0) : w \in 1..MAX_ICON_DIM}
    \cup {SrcIcon(1, h, "index", 0) : h \in 1..MAX_ICON_DIM}
    \cup {SrcIcon(w, h, "index", 0) : w \in SrcDims, h \in SrcDims}
    \cup {SrcIcon(w, h, "uniform", c) : w \in SrcDims, h \in SrcDims, c \in SrcColours}

\* one iteration of the outer loop, for y in 0..ICON_SIZE
ResampleStep ==
    /\ rs_pc = "src"
    /\ RowsDone(pixels) < ICON_SIZE
    /\ LET icon == Unwrap(src_icon)
           indices == SrcIndices(icon, RowsDone(pixels))
       IN  /\ pixels' = pixels \o RowBytes(icon, indices)
           /\ fallback' = (fallback \/ FallbackTaken(icon, indices))
    /\ UNCHANGED <<src_icon, rs_pc>>
    /\ UNCHANGED <<panel_vars, icon_vars, layout_vars, pair_vars>>

\* the loops are over: PutImage gets the pixels
ResampleEnd ==
    /\ rs_pc = "src"
    /\ RowsDone(pixels) >= ICON_SIZE
    /\ rs_pc' = "done"
    /\ UNCHANGED <<src_icon, pixels, fallback>>
    /\ UNCHANGED <<panel_vars, icon_vars, layout_vars, pair_vars>>

ResampleInit ==
    /\ src_icon \in {Some(i) : i \in SrcIcons}
    /\ pixels = <<>>
    /\ fallback = FALSE
    /\ rs_pc = "src"

InitResample == PanelInit /\ IconIdle /\ ResampleInit /\ LayoutIdle /\ PairIdle

NextResample == ResampleStep \/ ResampleEnd

SpecResample == InitResample /\ [][NextResample]_vars

----------------------------------------------------------------------------
(* update_layout on its own, one entry of the for loop per step, for the   *)
(* registry sizes a client list of at most 1024 handles can give.          *)

\* long_length of the client-list request: the handles one reply can hold
MAX_CLIENTS == 1024

LayoutSizes == {0, 1, 2, 963, 964, 965, MAX_CLIENTS}

\* an entry gets its rectangle, then y_pos is advanced: an addition that leaves i16
\* wraps or aborts the process, as the build has it
LayoutStep ==
    /\ layout_pc = "loop"
    /\ laid < entries
    /\ rect_y' = Some(LayoutRect(y_pos).y)
    /\ laid' = laid + 1
    /\ \/ /\ y_pos' = LayoutAdvance(y_pos)
          /\ layout_pc' = "loop"
       \/ /\ LayoutOverflows(y_pos)
          /\ y_pos' = y_pos
          /\ layout_pc' = "abort"
    /\ UNCHANGED entries
    /\ UNCHANGED <<panel_vars, icon_vars, resample_vars, pair_vars>>

LayoutEnd ==
    /\ layout_pc = "loop"
    /\ laid = entries
    /\ layout_pc' = "done"
    /\ UNCHANGED <<entries, laid, y_pos, rect_y>>
    /\ UNCHANGED <<panel_vars, icon_vars, resample_vars, pair_vars>>

LayoutInit ==
    /\ entries \in LayoutSizes
    /\ laid = 0
    /\ y_pos = LayoutStart
    /\ rect_y = None
    /\ layout_pc = "loop"

InitLayout == PanelInit /\ IconIdle /\ ResampleIdle /\ LayoutInit /\ PairIdle

NextLayout == LayoutStep \/ LayoutEnd

SpecLayout == InitLayout /\ [][NextLayout]_vars

----------------------------------------------------------------------------
(* Two panel processes that are given the same client lists and the same   *)
(* eligibility replies.  Each has its own HashMap, with its own iteration  *)
(* order.                                                                  *)

PairHandles == {10, 20, 30}

PairLists == SeqsUpTo(PairHandles, Cardinality(PairHandles))

\* the iteration orders the for loop of update_windows may leave
RECURSIVE InsertOrders(_, _, _)
InsertOrders(ord, list, passed) ==
    IF list = <<>> THEN {ord}
    ELSE IF Head(list) \in passed /\ Head(list) \notin Range(ord)
         THEN UNION {InsertOrders(InsertAt(ord, k, Head(list)), Tail(list), passed) :
                        k \in 0..Len(ord)}
         ELSE InsertOrders(ord, Tail(list), passed)

\* the order in which the for loop of update_windows inserts
RECURSIVE Discover(_, _, _)
Discover(disc, list, passed) ==
    IF list = <<>> THEN disc
    ELSE IF Head(list) \in passed /\ Head(list) \notin Range(disc)
         THEN Discover(Append(disc, Head(list)), Tail(list), passed)
         ELSE Discover(disc, Tail(list), passed)

\* update_windows of one process: retain, the for loop, update_layout
RunSync(run, list, passed, ord) ==
    LET kept == RetainWindows(run.windows, list)
        ws == [h \in Range(ord) |->
                  IF h \in DOMAIN kept THEN kept[h] ELSE NewWindowData(DefaultTitle, None)]
    IN  [windows |-> UpdateLayout(ws, ord), order |-> ord]

\* both processes run update_windows on the same client list, with the same
\* handles passing the eligibility check
PairSync ==
    /\ \E list \in PairLists, passed \in SUBSET PairHandles :
         /\ \E ord \in InsertOrders(Retain(run_a.order, Range(list)), list, passed) :
                run_a' = RunSync(run_a, list, passed, ord)
         /\ \E ord \in InsertOrders(Retain(run_b.order, Range(list)), list, passed) :
                run_b' = RunSync(run_b, list, passed, ord)
         /\ discovery' = Discover(Retain(discovery, Range(list)), list, passed)
    /\ UNCHANGED <<panel_vars, icon_vars, resample_vars, layout_vars>>

InitOrder == Init

NextOrder == PairSync

SpecOrder == InitOrder /\ [][NextOrder]_vars

----------------------------------------------------------------------------
(* Properties of the registry.                                             *)

Keys == DOMAIN windows

\* the last update_windows fetched a client list and has returned
SyncDone == pc = "wait" /\ sync_ok

\* the handles whose eligibility check passed in this update_windows
Passed == {current_windows[k] : k \in {j \in 1..Len(current_windows) : outcome[j]}}

\* the pixmaps the entries of the registry hold
Referenced == {Unwrap(windows[h].icon_pixmap) : h \in {k \in Keys : IsSome(windows[k].icon_pixmap)}}

\* C1: after every successful update_windows every key of the registry is in the
\* client list that update_windows fetched and passed the eligibility check of that
\* update_windows (so a tracked window that became ineligible is gone).
C1_KeysListedAndEligible ==
    SyncDone => \A h \in Keys : h \in Range(current_windows) /\ h \in Passed

\* C2: after every successful update_windows every handle of the fetched list
\* whose eligibility check passed is a key of the registry, and every entry made by
\* this update_windows holds what load_window_icon returned, None included.
C2_EligibleTracked ==
    SyncDone =>
        /\ \A k \in 1..Len(current_windows) : outcome[k] => current_windows[k] \in Keys
        /\ \A c \in calls.icon : c[1] \in Keys /\ windows[c[1]].icon_pixmap = c[2]

\* an eligible window whose icon decode failed is tracked, with no icon
C2_Witness ==
    /\ SyncDone
    /\ \E h \in Passed : h \in Keys /\ <<h, None>> \in calls.icon
                         /\ windows[h].icon_pixmap = None

\* after the retain of a successful fetch every key is in the fetched list
C3_AbsentGone == (pc = "scan" \/ SyncDone) => Keys \subseteq Range(current_windows)

\* a handle that becomes a key gets what this step's calls returned
C3_FreshEntry ==
    \A h \in Handles :
        (h \notin Keys /\ h \in DOMAIN windows') =>
            /\ <<h, windows'[h].title>> \in calls'.title \ calls.title
            /\ <<h, windows'[h].icon_pixmap>> \in calls'.icon \ calls.icon
            /\ IsSome(windows'[h].icon_pixmap) =>
                   /\ Unwrap(windows'[h].icon_pixmap) \notin pixmaps
                   /\ Unwrap(windows'[h].icon_pixmap) \in pixmaps'

\* C3: once update_windows has fetched a list, no key of the registry is absent
\* from it (a tracked handle that is not listed is gone); and whenever a handle
\* becomes a key, its title is the result of a get_window_title call of that very
\* step and its icon the result of a load_window_icon call of that very step, a
\* created pixmap being one that did not exist before.
C3_EvictThenFresh == []C3_AbsentGone /\ [][C3_FreshEntry]_vars

\* Both handles are tracked and a pixmap exists that no entry holds: the entry it
\* was created for was evicted, and its handle is a key again, with a new entry.
C3_Witness ==
    /\ SyncDone
    /\ Keys = Handles
    /\ \E p \in pixmaps : p \notin Referenced
    /\ \E h \in Keys \ pre_keys : IsSome(windows[h].icon_pixmap)

\* C4: the pixmaps created and not freed are exactly the pixmaps the entries of
\* the registry hold (an evicted entry's pixmap has been freed).
C4_NoLeak == pixmaps = Referenced

\* a repeated update_windows keeps the key set and makes no call
C5_SameKeys == (SyncDone /\ stable) => (Keys = pre_keys /\ calls = NoCalls)

\* a handle that stays a key keeps its title and icon, and is not decoded again
C5_EntryKept ==
    \A h \in Keys \cap DOMAIN windows' :
        /\ windows'[h].title = windows[h].title
        /\ windows'[h].icon_pixmap = windows[h].icon_pixmap
        /\ \A c \in calls'.icon \ calls.icon : c[1] # h

\* C5: an update_windows whose client list and eligibility replies equal those of
\* the update_windows before it leaves the key set as it was and calls neither
\* get_window_title nor load_window_icon; and no step changes the title or the
\* icon of a handle that stays a key, or decodes an icon for it.
C5_Idempotent == []C5_SameKeys /\ [][C5_EntryKept]_vars

\* a repeated update_windows over a registry that holds an entry without an icon
C5_Witness ==
    /\ SyncDone /\ stable
    /\ \E h \in Keys : windows[h].icon_pixmap = None
    /\ \E h \in Keys : IsSome(windows[h].icon_pixmap)

\* the replies under which the last insertion was made
C6_InsertedUnder ==
    IsSome(last_insert) =>
        LET c == Unwrap(last_insert)
        IN  /\ c.type_reply.ok
            /\ "_NET_WM_WINDOW_TYPE_NORMAL" \in Range(c.type_reply.value)
            /\ c.attrs_reply.ok
            /\ ~c.attrs_reply.override_redirect

\* an insertion is recorded; a failed check inserts nothing and the loop goes on
C6_StepRecorded ==
    /\ (DOMAIN windows' \ Keys # {}) =>
           /\ IsSome(last_insert')
           /\ DOMAIN windows' \ Keys = {Unwrap(last_insert').window}
    /\ (pc = "scan" /\ idx <= Len(current_windows)) =>
           /\ pc' = "scan" /\ idx' = idx + 1
           /\ ~outcome'[idx] => DOMAIN windows' = Keys

\* C6: a step of the for loop inserts a window only under a type reply that
\* arrived and lists the normal type and an attributes reply that arrived with
\* override_redirect = false; a step whose check fails inserts nothing and the
\* loop goes on with the next handle.
C6_IneligibleNeverInserted == []C6_InsertedUnder /\ [][C6_StepRecorded]_vars

\* the first handle of the list failed its check and is not tracked, the second
\* passed and is
C6_Witness ==
    /\ SyncDone
    /\ Len(current_windows) = 2
    /\ ~outcome[1] /\ current_windows[1] \notin Keys
    /\ outcome[2] /\ current_windows[2] \in Keys

\* C7: update_windows never inserts a window that carries a non-empty
\* skip-taskbar state property.
C7_SkipTaskbarNeverInserted ==
    IsSome(last_insert) => ~Unwrap(last_insert).skip_taskbar

----------------------------------------------------------------------------
(* Properties of the layout.                                               *)

\* the k-th slot of the panel, k from 0
Slot(k) ==
    [x |-> (PANEL_WIDTH - ICON_SIZE) \div 2,
     y |-> ITEM_SPACING + k * (ICON_SIZE + ITEM_SPACING),
     width |-> ICON_SIZE,
     height |-> ICON_SIZE]

C12_DeterministicOrder ==
    /\ DOMAIN run_a.windows = Range(discovery)
    /\ DOMAIN run_b.windows = Range(discovery)
    /\ \A h \in Range(discovery) :
           run_a.windows[h].icon_rect = run_b.windows[h].icon_rect
    /\ run_a.order = run_b.order

\* the point (x, y) lies in the rectangle, both far edges included
Inside(x, y, rect) ==
    /\ rect.x <= x /\ x <= rect.x + rect.width
    /\ rect.y <= y /\ y <= rect.y + rect.height

\* C13: a ButtonPress on the panel at (x, y) routes to an entry if and only if
\* (x, y) lies in the entry's rectangle, both far edges included; a press on the
\* top left corner of a rectangle routes to its entry; a press one pixel beyond
\* the bottom right corner does not route to that entry; and a press that routes
\* to no entry sends no request.
C13_InclusiveHit ==
    IsSome(click) =>
        LET c == Unwrap(click)
        IN  /\ \A h \in Keys :
                   LET rect == windows[h].icon_rect
                   IN  /\ h \in Range(c.hits) <=> Inside(c.x, c.y, rect)
                       /\ (c.x = rect.x /\ c.y = rect.y) => h \in Range(c.hits)
                       /\ (c.x = rect.x + rect.width + 1 /\ c.y = rect.y + rect.height + 1)
                              => h \notin Range(c.hits)
            /\ Range(c.hits) \subseteq Keys
            /\ c.hits = <<>> => c.requests = <<>>

\* a press on the bottom right corner of the first rectangle raised its window
C13_Witness ==
    /\ IsSome(click)
    /\ Unwrap(click).x = Slot(0).x + ICON_SIZE
    /\ Unwrap(click).y = Slot(0).y + ICON_SIZE
    /\ Len(Unwrap(click).hits) = 1
    /\ Len(Unwrap(click).requests) = 2

\* requests go to a hit window, and only under attributes that allow the focus
C14_RequestsOnlyIfViewable ==
    IsSome(click) =>
        LET c == Unwrap(click)
        IN  /\ \A k \in 1..Len(c.requests) :
                   LET w == c.requests[k].window
                   IN  /\ w \in Range(c.hits)
                       /\ c.replies[w].ok
                       /\ ~c.replies[w].override_redirect
                       /\ c.replies[w].map_state = "Viewable"
            /\ \A h \in Range(c.hits) :
                   (~c.replies[h].ok \/ c.replies[h].override_redirect
                       \/ c.replies[h].map_state # "Viewable")
                   => \A k \in 1..Len(c.requests) : c.requests[k].window # h

\* a ButtonPress changes nothing of the registry and the loop goes round
C14_PressFrame ==
    IsSome(click') =>
        /\ windows' = windows
        /\ order' = order
        /\ pixmaps' = pixmaps
        /\ panel_window' = panel_window
        /\ pc' = "sync"

\* C14: a press that hits an entry sends SetInputFocus and the raise for a window
\* only if the attributes reply of that press arrived with override_redirect =
\* false and map_state = Viewable; for a hit window whose attributes request
\* failed, or that is override-redirect or not viewable, nothing is sent; and a
\* press changes no state of the panel and the loop goes on.
C14_FocusOnlyIfViewable == []C14_RequestsOnlyIfViewable /\ [][C14_PressFrame]_vars

\* a press hit one entry whose window is unmapped by now: nothing was sent
C14_Witness ==
    /\ IsSome(click)
    /\ Len(Unwrap(click).hits) = 1
    /\ LET h == Unwrap(click).hits[1]
       IN  /\ Unwrap(click).replies[h].ok
           /\ Unwrap(click).replies[h].map_state = "Unmapped"
    /\ Unwrap(click).requests = <<>>

\* C15: the title of every entry of the registry is non-empty.
C15_TitleNonEmpty == \A h \in Keys : windows[h].title # ""

\* C16: when main has left its loop on the WM_DELETE_WINDOW message, the panel
\* window is destroyed and no pixmap held by a tracked entry is still allocated.
C16_ExitReleasesAll ==
    pc = "exit" => (~panel_window /\ Referenced \cap pixmaps = {})

\* C17: an insertion whose second icon reply arrived truncated (bytes_after > 0)
\* made an entry without icon.
C17_TruncatedFetchFails ==
    (IsSome(last_insert) /\ Unwrap(last_insert).fetch_truncated) =>
        windows[Unwrap(last_insert).window].icon_pixmap = None

\* C18: for every registry a client list of at most 1024 handles can give,
\* update_layout does not abort, y_pos is ITEM_SPACING + k * (ICON_SIZE +
\* ITEM_SPACING) after k entries and at most 32767, and no rectangle gets a
\* negative y.
C18_LayoutInRange ==
    /\ layout_pc # "abort"
    /\ layout_pc \in {"loop", "done"} =>
           /\ y_pos = ITEM_SPACING + laid * (ICON_SIZE + ITEM_SPACING)
           /\ y_pos <= I16_MAX
    /\ IsSome(rect_y) => Unwrap(rect_y) >= 0

\* C19: an update_windows whose client-list request fails, or whose reply is not
\* of format 32, changes neither the keys of the registry nor any entry's title,
\* icon or rectangle, nor the order of the entries.
C19_FailedFetchFrames ==
    [][(pc = "sync" /\ pc' = "wait") => (windows' = windows /\ order' = order)]_vars

\* two laid out entries went through an update_windows whose fetch failed
C19_Witness ==
    /\ pc = "wait"
    /\ ~sync_ok
    /\ Cardinality(Keys) = 2
    /\ \A h \in Keys : \E k \in 0..1 : windows[h].icon_rect = Slot(k)

\* C20: after a successful update_windows no point lies in the rectangles of two
\* entries, far edges included; and a press hits at most one entry and sends at
\* most one SetInputFocus and one raise.
C20_DisjointRects ==
    /\ SyncDone =>
           \A h1, h2 \in Keys :
               h1 # h2 =>
                   LET r1 == windows[h1].icon_rect
                       r2 == windows[h2].icon_rect
                   IN  \/ r1.x + r1.width < r2.x \/ r2.x + r2.width < r1.x
                       \/ r1.y + r1.height < r2.y \/ r2.y + r2.height < r1.y
    /\ IsSome(click) =>
           /\ Len(Unwrap(click).hits) <= 1
           /\ Len(Unwrap(click).requests) <= 2

\* two entries are tracked; a press on the top left corner of the second
\* rectangle raised one window
C20_Witness ==
    /\ IsSome(click)
    /\ Cardinality(Keys) = 2
    /\ Unwrap(click).y = Slot(1).y
    /\ Len(Unwrap(click).hits) = 1
    /\ Len(Unwrap(click).requests) = 2

----------------------------------------------------------------------------
(* Properties of the icon stream scan.                                     *)

\* an image within the size bound, with pixels
Qualifies(t) == t.w <= MAX_ICON_DIM /\ t.h <= MAX_ICON_DIM /\ Area(t) > 0

\* the offset of the header of the k-th image in the stream
RECURSIVE HeaderAt(_, _)
HeaderAt(ts, k) == IF k = 1 THEN 0 ELSE HeaderAt(ts, k - 1) + 2 + Area(ts[k - 1])

\* the first image of maximal area among the qualifying ones
IsBest(ts, k) ==
    /\ Qualifies(ts[k])
    /\ \A j \in 1..Len(ts) :
           Qualifies(ts[j]) =>
               \/ Area(ts[j]) < Area(ts[k])
               \/ Area(ts[j]) = Area(ts[k]) /\ j >= k

ExpectedIcon(ts) ==
    IF \A k \in 1..Len(ts) : ~Qualifies(ts[k]) THEN None
    ELSE LET k == CHOOSE j \in 1..Len(ts) : IsBest(ts, j)
         IN  Some([width |-> ts[k].w, height |-> ts[k].h,
                   lo |-> HeaderAt(ts, k) + 2,
                   hi |-> HeaderAt(ts, k) + 2 + Area(ts[k])])

\* the pixel words a selection covers are those of one image, all of them
SelectsImage(k) ==
    /\ IsSome(scan.best_icon)
    /\ SubSeq(raw_data, Unwrap(scan.best_icon).lo + 1, Unwrap(scan.best_icon).hi)
           = [j \in 1..Area(triples[k]) |-> k]

\* C8: on a stream that is a concatenation of images and nothing else the scan
\* selects the first image of maximal area among those with w <= 256, h <= 256
\* and a non-zero area, its pixel words being the selected slice, and selects
\* nothing when there is no such image (the empty stream included).
C8_BestOfWellFormed ==
    (scan_pc = "done" /\ tail = <<>>) =>
        /\ scan.best_icon = ExpectedIcon(triples)
        /\ BestIcon(raw_data) = scan.best_icon
        /\ \A k \in 1..Len(triples) : IsBest(triples, k) => SelectsImage(k)

\* two images of equal area, both within the bound: the first is selected
C8_Witness ==
    /\ scan_pc = "done" /\ tail = <<>>
    /\ Len(triples) = 2
    /\ triples[1] # triples[2]
    /\ Area(triples[1]) = Area(triples[2])
    /\ Qualifies(triples[1]) /\ Qualifies(triples[2])
    /\ SelectsImage(1)

\* a header that claims more pixel words than the stream still holds
Truncated(t) == IF Len(t) >= 2 THEN t[1] * t[2] > Len(t) - 2 ELSE FALSE

\* the result of a scan that met a truncated header
C9_StopsAtTruncated ==
    (scan_pc = "done" /\ Truncated(tail)) =>
        /\ scan.best_icon = ExpectedIcon(triples)
        /\ BestIcon(raw_data) = scan.best_icon
        /\ scan.offset = Len(raw_data) - Len(tail)
        /\ IsSome(scan.best_icon) => Unwrap(scan.best_icon).hi <= Len(raw_data) - Len(tail)

\* the scan can take a step until it is done
C9_NotStuck == scan_pc \in {"idle", "done"} \/ ENABLED NextIcon

\* an iteration moves the offset forward, within the stream
C9_Progress ==
    scan' # scan => (scan'.offset > scan.offset /\ scan'.offset <= Len(raw_data))

\* C9: when the images are followed by a header that claims more pixel words than
\* remain, the scan ends at that header: the result is the best of the images
\* before it, the selected slice ends before it; no iteration of the loop leaves
\* the offset where it was or moves it past the end of the stream, and the scan
\* is never stuck before it is done.
C9_TruncatedStops == [](C9_StopsAtTruncated /\ C9_NotStuck) /\ [][C9_Progress]_vars

\* an image without pixels and a selected image, then a truncated header whose
\* leftover words read as an image of their own
C9_Witness ==
    /\ scan_pc = "done"
    /\ tail = <<2, 2, 1, 1, 5>>
    /\ \E k \in 1..Len(triples) : Area(triples[k]) = 0
    /\ IsSome(scan.best_icon)

----------------------------------------------------------------------------
(* Properties of the resampling.                                           *)

\* floor(y * h / ICON_SIZE) * w + floor(x * w / ICON_SIZE)
FloorIndex(icon, x, y) ==
    ((y * icon.height) \div ICON_SIZE) * icon.width + ((x * icon.width) \div ICON_SIZE)

\* the four bytes of pixel (x, y) in the Vec<u8>
PixelBytes(x, y) == SubSeq(pixels, 4 * (y * ICON_SIZE + x) + 1, 4 * (y * ICON_SIZE + x) + 4)

\* C10: each destination pixel (x, y) holds the source word at index
\* floor(y*h/ICON_SIZE)*w + floor(x*w/ICON_SIZE), which is below w*h, as its
\* three low bytes followed by 0xFF; the fallback pixel is never used; a source
\* of one colour gives that colour's bytes everywhere.  Stated of the row the
\* last step added: every row is the last row of the state that step made.
C10_NearestNeighbour ==
    (IsSome(src_icon) /\ RowsDone(pixels) >= 1) =>
        LET icon == Unwrap(src_icon)
            y == RowsDone(pixels) - 1
        IN  /\ ~fallback
            /\ Len(pixels) = 4 * ICON_SIZE * RowsDone(pixels)
            /\ \A x \in 0..(ICON_SIZE - 1) :
                   LET i == FloorIndex(icon, x, y)
                       word == IF icon.pattern = "index" THEN i ELSE icon.colour
                   IN  /\ i < icon.width * icon.height
                       /\ PixelBytes(x, y) = <<word % 256, (word \div 256) % 256,
                                               (word \div 65536) % 256, 255>>

\* a 256 x 256 source of one colour has been resampled to the end
C10_Witness ==
    /\ rs_pc = "done"
    /\ Unwrap(src_icon).pattern = "uniform"
    /\ Unwrap(src_icon).width = MAX_ICON_DIM /\ Unwrap(src_icon).height = MAX_ICON_DIM
    /\ Len(pixels) = 4 * ICON_SIZE * ICON_SIZE
    /\ PixelBytes(ICON_SIZE - 1, ICON_SIZE - 1) = <<153, 102, 51, 255>>

====
